---- MODULE Spec2Model ----
(***************************************************************************)
(* Model of src/utils/moon_illumination.py: the monthly lunar-illumination *)
(* aggregator (fetch with retry, text normalisation, reconstruction of     *)
(* wrapped day rows, validation, aggregation, completeness pass, writer).  *)
(*                                                                         *)
(* Fractions are held in units of 0.0001: 0.0 is 0, 1.0 is 10000 and       *)
(* 1.0001 is 10001.  Python's None is the value None below.                *)
(* The exceptions of the source are named as the specification names them: *)
(*   ValueError  (lines 45, 170, 176)  -> "ConfigError"                    *)
(*   RuntimeError (line 150)           -> "FetchError"                     *)
(*   RuntimeError (line 202)           -> "ReconstructionError"            *)
(*   RuntimeError (line 217)           -> "RangeError"                     *)
(*   RuntimeError (line 229)           -> "CompletenessError"              *)
(*   OSError from open/write (235-242) -> "IOError"                        *)
(***************************************************************************)
EXTENDS Integers, Sequences, FiniteSets, TLC

\* ------------------------------------------------------------ bounds
\* The requested years are drawn from LastYear-1 .. LastYear.
LastYear == 2024
FirstYear == LastYear - 1
\* Number of lines fed to the Reconstructor in SpecParse.
MaxLines == 3

\* ------------------------------------------------- program constants
Retries == 5
MaxBackoff == 16
MinDayRows == 28
TokensPerDay == 12
One == 10000
None == -1
MONTHS == 1..12

\* ----------------------------------------------------------- calendar
\* calendar.isleap, as used by calendar.monthrange and datetime.date
IsLeap(y) == (y % 4 = 0) /\ ((y % 100 # 0) \/ (y % 400 = 0))

\* calendar.monthrange(year, month)[1]
DaysInMonth(y, m) ==
    IF m = 2 THEN (IF IsLeap(y) THEN 29 ELSE 28)
    ELSE IF m \in {4, 6, 9, 11} THEN 30 ELSE 31

\* dt.date(year, month, day) does not raise ValueError
ValidDate(y, m, d) ==
    /\ y >= 1 /\ y <= 9999
    /\ m \in MONTHS
    /\ d >= 1 /\ d <= DaysInMonth(y, m)

\* ------------------------------------------------------ text of a line
\* A text line is [lead, ws, atoms]:
\*   lead  : the two digits the line begins with (0..99), or None when the
\*           line does not begin with exactly two digits;
\*   ws    : whether whitespace follows those two digits;
\*   atoms : the whitespace-separated words after them.
\* An atom is the placeholder "--" ("ph"), an unsigned decimal ("num", value
\* v), a decimal written with a minus sign in front ("neg", magnitude v), or
\* a word with no digits-dot-digits in it ("junk").
Ph == [k |-> "ph", v |-> 0]
Num(n) == [k |-> "num", v |-> n]
Neg(n) == [k |-> "neg", v |-> n]
Junk == [k |-> "junk", v |-> 0]

TextLine(lead, ws, atoms) == [lead |-> lead, ws |-> ws, atoms |-> atoms]

\* str.strip() of a line: trailing whitespace goes, so a line that holds
\* the two digits and nothing else loses the whitespace after them.
Strip(ln) == IF ln.atoms = <<>> THEN [ln EXCEPT !.ws = FALSE] ELSE ln

\* a line whose strip() is the empty string
IsBlank(ln) == ln.lead = None /\ ln.atoms = <<>>

\* DAY_START_RE.match(ln): two digits, then at least one whitespace
DayStartMatch(ln) == ln.lead # None /\ ln.ws

\* (variant: a decimal with a minus sign in front is no token at all)
AtomTokensNoSigned(a) ==
    IF a.k = "ph" THEN <<Ph>>
    ELSE IF a.k = "num" THEN <<Num(a.v)>>
    ELSE <<>>

\* TOKEN_RE.findall on one atom: "--" and unsigned decimals are tokens; the
\* minus sign of "-0.5" is not part of the match, so the token is "0.5".
AtomTokens(a) ==
    IF a.k = "ph" THEN <<Ph>>
    ELSE IF a.k \in {"num", "neg"} THEN <<Num(a.v)>>
    ELSE <<>>

RECURSIVE FindAll(_)
\* TOKEN_RE.findall(text) over the atoms of the text, left to right
FindAll(atoms) ==
    IF atoms = <<>> THEN <<>>
    ELSE AtomTokens(Head(atoms)) \o FindAll(Tail(atoms))

\* None if t == "--" else float(t)
TokenValue(t) == IF t.k = "ph" THEN None ELSE t.v

\* --------------------------------------------------- Row Reconstructor
\* State of parse_wrapped_day_rows: current_day, current_tokens, rows.
ParseInit == [current_day |-> None, current_tokens |-> <<>>, rows |-> <<>>]

\* (variant: a record is complete one token late)
FlushThresholdLate == TokensPerDay + 1

\* how many tokens complete a record
FlushThreshold == TokensPerDay

\* (variant: no clamp, every collected token is kept)
KeptTokensAll(toks) == toks

\* toks = current_tokens[:12]
KeptTokens(toks) ==
    SubSeq(toks, 1, IF Len(toks) < TokensPerDay THEN Len(toks) ELSE TokensPerDay)

flush_if_complete(st) ==
    IF st.current_day = None THEN st
    ELSE IF Len(st.current_tokens) >= FlushThreshold
    THEN LET toks == KeptTokens(st.current_tokens)
         IN [current_day |-> None,
             current_tokens |-> <<>>,
             rows |-> Append(st.rows,
                        [day |-> st.current_day,
                         vals |-> [i \in 1..Len(toks) |-> TokenValue(toks[i])]])]
    ELSE st

\* (variant: the tokens of the open record are kept under the new day)
DayStartTokensKeep(old, new) == old \o new

\* tokens of the open record when a day-start line arrives
DayStartTokens(old, new) == new

\* one iteration of "for ln in lines"
ParseStep(st, ln) ==
    IF DayStartMatch(ln)
    THEN flush_if_complete(
           [st EXCEPT !.current_day = ln.lead,
                      !.current_tokens =
                          DayStartTokens(st.current_tokens, FindAll(ln.atoms))])
    ELSE IF st.current_day # None /\ FindAll(ln.atoms) # <<>>
    THEN flush_if_complete(
           [st EXCEPT !.current_tokens = st.current_tokens \o FindAll(ln.atoms)])
    ELSE st

RECURSIVE ParseFrom(_, _, _, _)
\* "for ln in lines" over lines[lo..hi], first half then second half
\* (st is compared first so that the lines are evaluated in order: operator
\* arguments are evaluated on first use)
ParseFrom(st, lines, lo, hi) ==
    IF st = st /\ lo > hi THEN st
    ELSE IF lo = hi THEN ParseStep(st, lines[lo])
    ELSE LET mid == (lo + hi) \div 2
         IN ParseFrom(ParseFrom(st, lines, lo, mid), lines, mid + 1, hi)

\* parse_wrapped_day_rows(lines)
parse_wrapped_day_rows(lines) == ParseFrom(ParseInit, lines, 1, Len(lines)).rows

\* ------------------------------------------------------------ RawPage
\* The response of the service is a table: a sequence of <tr> rows, each a
\* sequence of <td> cells.  A cell holds the two digits of a day number
\* ([k |-> "day", v |-> dd]) or one atom.
DayCell(dd) == [k |-> "day", v |-> dd]

\* The text of one table row after "</td>" -> " " and tag stripping: every
\* cell is followed by one space.  A row whose first cell is a day number
\* becomes a line that begins with two digits and a space.
RowLine(cells) ==
    IF cells # <<>> /\ Head(cells).k = "day"
    THEN TextLine(Head(cells).v, TRUE, Tail(cells))
    ELSE TextLine(None, FALSE, cells)

\* html_to_text_preserve_table(html) followed by text.split("\n"):
\* "</tr>" -> "\n" gives one line per table row; a row with no cell leaves
\* two line breaks in a row, which line 80 collapses, so it gives no line;
\* line 82 strips the text, so the last line loses the space after its last
\* cell, and a page with no text at all is the one empty line of "".split.
html_to_text_preserve_table(page) ==
    LET rows == [i \in 1..Len(page) |-> RowLine(page[i])]
        kept == SelectSeq(rows, LAMBDA ln : ~IsBlank(ln))
    IN IF kept = <<>> THEN <<TextLine(None, FALSE, <<>>)>>
       ELSE [i \in 1..Len(kept) |->
               IF i = Len(kept) THEN Strip(kept[i]) ELSE kept[i]]

\* lines = [ln.strip() for ln in text.split("\n") if ln.strip()]
StripNonBlank(lines) ==
    LET kept == SelectSeq(lines, LAMBDA ln : ~IsBlank(ln))
    IN [i \in 1..Len(kept) |-> Strip(kept[i])]

\* ----------------------------------------------- pages of the service
\* The pages the model draws are described by a scenario record
\* [kind, wrap, d, m, a, k]; Blocks gives the day blocks (day number and
\* the atoms that follow it) and PageOf lays them out in table rows.
Marker == 7000 + 777
BaseVal(d, m) == (((d * 37) + (m * 11)) % 101) * 100

CleanAtoms(y, d) ==
    [m \in 1..TokensPerDay |-> IF ValidDate(y, m, d) THEN Num(BaseVal(d, m)) ELSE Ph]

Block(day, atoms) == [day |-> day, atoms |-> atoms]
CleanBlock(y, d) == Block(d, CleanAtoms(y, d))
CleanBlocks(y) == [d \in 1..31 |-> CleanBlock(y, d)]
MarkerAtoms(n) == [i \in 1..n |-> Num(Marker)]

Blocks(y, scn) ==
    CASE scn.kind = "clean" -> CleanBlocks(y)
      [] scn.kind = "rot" ->
           <<CleanBlock(y, 31)>> \o SubSeq(CleanBlocks(y), 1, 30)
      [] scn.kind = "dup" ->
           [d \in 1..31 |-> IF d = scn.d THEN Block(scn.m, CleanAtoms(y, d))
                            ELSE CleanBlock(y, d)]
      [] scn.kind = "tok" ->
           [d \in 1..31 |-> IF d = scn.d
                            THEN Block(d, [CleanAtoms(y, d) EXCEPT ![scn.m] = scn.a])
                            ELSE CleanBlock(y, d)]
      [] scn.kind = "short" ->
           SubSeq(CleanBlocks(y), 1, scn.d - 1)
             \o <<Block(scn.d, MarkerAtoms(scn.k))>>
             \o (IF scn.m = 1 THEN <<CleanBlock(y, scn.d)>> ELSE <<>>)
             \o SubSeq(CleanBlocks(y), scn.d + 1, 31)
      [] scn.kind = "extra" ->
           [d \in 1..31 |-> IF d = scn.d
                            THEN Block(d, CleanAtoms(y, d) \o MarkerAtoms(scn.k))
                            ELSE CleanBlock(y, d)]
      [] scn.kind = "stray" ->
           <<Block(scn.d, [m \in 1..TokensPerDay |-> scn.a])>> \o CleanBlocks(y)
      [] scn.kind = "few" -> SubSeq(CleanBlocks(y), 1, scn.d)

WrapSizes(w) ==
    CASE w = "one" -> <<12>>
      [] w = "three" -> <<4, 4, 4>>
      [] w = "head" -> <<1, 11>>
      [] w = "bare" -> <<0, 12>>

\* how many atoms precede chunk i of a block (a wrap has at most 3 chunks)
ChunkStart(sizes, i) ==
    IF i = 1 THEN 0 ELSE IF i = 2 THEN sizes[1] ELSE sizes[1] + sizes[2]

\* chunk i of the atoms of a block: sizes[i] atoms, the last chunk the rest
Chunk(atoms, sizes, i) ==
    LET from == ChunkStart(sizes, i) + 1
        to == IF i = Len(sizes) THEN Len(atoms)
              ELSE IF ChunkStart(sizes, i + 1) < Len(atoms)
              THEN ChunkStart(sizes, i + 1) ELSE Len(atoms)
    IN SubSeq(atoms, from, to)

\* table row i of a block: the day cell opens the first row; a block with
\* fewer atoms than the wrap leaves its last rows empty
BlockRow(b, sizes, i) ==
    IF i = 1 THEN <<DayCell(b.day)>> \o Chunk(b.atoms, sizes, 1)
    ELSE Chunk(b.atoms, sizes, i)

LayOut(blocks, sizes) ==
    [g \in 1..(Len(blocks) * Len(sizes)) |->
       BlockRow(blocks[((g - 1) \div Len(sizes)) + 1], sizes,
                ((g - 1) % Len(sizes)) + 1)]

PageOf(y, scn) ==
    LET blocks == Blocks(y, scn)
        sizes == WrapSizes(scn.wrap)
    IN LayOut(blocks, sizes)

Scn(kind, wrap, d, m, a, k) ==
    [kind |-> kind, wrap |-> wrap, d |-> d, m |-> m, a |-> a, k |-> k]

TokAtoms == {Num(0), Num(One), Num(One + 1), Neg(1), Ph, Junk}

Scenarios ==
    {Scn("clean", w, 0, 0, Ph, 0) : w \in {"one", "three", "head", "bare"}}
    \cup {Scn("rot", "one", 0, 0, Ph, 0)}
    \cup {Scn("dup", "one", p[1], p[2], Ph, 0) : p \in {<<6, 5>>, <<31, 30>>}}
    \cup {Scn("tok", "one", p[1], p[2], a, 0) :
            p \in {<<1, 2>>, <<29, 2>>, <<31, 4>>}, a \in TokAtoms}
    \cup {Scn("short", p[1], d, r, Ph, p[2]) :
            p \in {<<"one", 11>>, <<"three", 5>>}, d \in {1, 31}, r \in {0, 1}}
    \cup {Scn("extra", "three", d, 0, Ph, 1) : d \in {1, 31}}
    \cup {Scn("stray", "one", d, 0, Num(One + 1), 0) : d \in {0, 45}}
    \cup {Scn("few", "one", d, 0, Ph, 0) : d \in {27, 28}}

NoPage == Scn("none", "one", 0, 0, Ph, 0)

\* ------------------------------------------------------------- state
VARIABLES
    pc,            \* position in main: "args", "fetch", "get", "ret", "text", "agg",
                   \* "check", "open", "write", "close", "done"
    err,           \* the exception that ended the run, or "none"
    errinfo,       \* what the exception reports
    args,          \* the parsed command line: start, end, state, tz_sign
    tz_hours, tz_sign, \* the resolved time zone (lines 173-183)
    year,          \* loop variable of "for year in range(start, end + 1)"
    attempt, backoff,  \* locals of fetch_year_html
    nreq,          \* session.get calls made by the current fetch_year_html
    slept,         \* the time.sleep(backoff) calls of the current fetch_year_html
    reqYears,      \* the years a request was sent for
    resp,          \* the response: PageOf(year, resp) is r.text
    pages,         \* the response received for each year so far
    day_rows,      \* result of parse_wrapped_day_rows for the current year
    sum_by_month, n_by_month,  \* the aggregators, (year, month) -> value
    keyOrder,      \* the keys of the aggregators in insertion order
    absent,        \* calendar dates of processed years with no accumulated value
    accepted,      \* the values added to sum_by_month so far
    out,           \* the output file on disk (exists, header, rows, cut) and
                   \* what f.write was handed and the file object still buffers (buf)
    plines, pst,   \* SpecParse: the lines fed so far, the Reconstructor's state
    html           \* SpecNorm: the markup of the page built so far

vars == <<pc, err, errinfo, args, tz_hours, tz_sign, year, attempt, backoff,
          nreq, slept, reqYears, resp, pages, day_rows, sum_by_month,
          n_by_month, keyOrder, absent, accepted, out, plines, pst, html>>

runVars == <<pc, err, errinfo, args, tz_hours, tz_sign, year, attempt, backoff,
             nreq, slept, reqYears, resp, pages, day_rows, sum_by_month,
             n_by_month, keyOrder, absent, accepted, out>>

Years == FirstYear..LastYear
Keys == Years \X MONTHS

\* STATE_TZ
STATE_TZ == [AL |-> [tz_hours |-> 6, tz_sign |-> -1]]

Args(s, e, st, sg) == [start |-> s, end |-> e, state |-> st, tz_sign |-> sg]

\* the command lines the model draws: --start, --end, --state, --tz-sign
\* ("" stands for no --state; --tz-hours keeps its default 0.0)
Configs ==
    {Args(s, e, "", -1) : s \in Years, e \in Years}
    \cup {Args(LastYear, LastYear, "", sg) : sg \in {0, 1, 2}}
    \cup {Args(LastYear, FirstYear, "", 0)}
    \cup {Args(FirstYear, FirstYear, st, 0) : st \in {"AL", "ZZ"}}

\* nothing handed to f.write
NoBuf == [header |-> FALSE, rows |-> <<>>]

\* no file at args.out.  Of a file, header tells whether the whole header
\* line is on disk, rows are the data rows that are wholly on disk, and cut
\* tells whether a part of the next line follows them.
NoFile == [exists |-> FALSE, header |-> FALSE, rows |-> <<>>, cut |-> FALSE,
           buf |-> NoBuf]
NoInfo == [year |-> 0, month |-> 0, day |-> 0, expected |-> 0, got |-> 0]

RunInit ==
    /\ pc = "args"
    /\ err = "none"
    /\ errinfo = NoInfo
    /\ args = Args(0, 0, "", 0)
    /\ tz_hours = 0
    /\ tz_sign = 0
    /\ year = 0
    /\ attempt = 0
    /\ backoff = 0
    /\ nreq = 0
    /\ slept = <<>>
    /\ reqYears = {}
    /\ resp = NoPage
    /\ pages = [y \in Years |-> NoPage]
    /\ day_rows = <<>>
    /\ sum_by_month = [key \in Keys |-> 0]
    /\ n_by_month = [key \in Keys |-> 0]
    /\ keyOrder = <<>>
    /\ absent = {}
    /\ accepted = {}
    /\ out = NoFile

Init ==
    /\ RunInit
    /\ plines = <<>>
    /\ pst = ParseInit
    /\ html = <<>>

Raise(e, info) == err' = e /\ errinfo' = info

\* ------------------------------------------------- main, lines 167-183
ParseArgs ==
    /\ pc = "args" /\ err = "none"
    /\ \E cfg \in Configs :
         /\ args' = cfg
         /\ IF cfg.end < cfg.start
            THEN /\ Raise("ConfigError", NoInfo)
                 /\ UNCHANGED <<pc, tz_hours, tz_sign, year>>
            ELSE IF cfg.state # "" /\ cfg.state \notin DOMAIN STATE_TZ
            THEN /\ Raise("ConfigError", NoInfo)
                 /\ UNCHANGED <<pc, tz_hours, tz_sign, year>>
            ELSE /\ tz_hours' = IF cfg.state # "" THEN STATE_TZ[cfg.state].tz_hours ELSE 0
                 /\ tz_sign' = IF cfg.state # "" THEN STATE_TZ[cfg.state].tz_sign
                               ELSE cfg.tz_sign
                 /\ year' = cfg.start
                 /\ pc' = "fetch"
                 /\ UNCHANGED <<err, errinfo>>
    /\ UNCHANGED <<attempt, backoff, nreq, slept, reqYears, resp, pages, day_rows,
                   sum_by_month, n_by_month, keyOrder, absent, accepted, out,
                   plines, pst, html>>

\* ------------------------------------------------------------ Fetcher
\* (variant: build_params accepts any tz_sign)
TzSignAny(sg) == sg = sg

\* build_params: tz_sign in (-1, 1)
TzSignOk(sg) == sg \in {-1, 1}

\* fetch_year_html, lines 136-138: build_params, backoff = 1.0
FetchStart ==
    /\ pc = "fetch" /\ err = "none"
    /\ IF ~TzSignOk(tz_sign)
       THEN /\ Raise("ConfigError", NoInfo)
            /\ UNCHANGED <<pc, attempt, backoff, nreq, slept>>
       ELSE /\ pc' = "get"
            /\ attempt' = 1
            /\ backoff' = 1
            /\ nreq' = 0
            /\ slept' = <<>>
            /\ UNCHANGED <<err, errinfo>>
    /\ UNCHANGED <<args, tz_hours, tz_sign, year, reqYears, resp, pages, day_rows,
                   sum_by_month, n_by_month, keyOrder, absent, accepted, out,
                   plines, pst, html>>

\* lines 141-142: the request succeeds with a good status
GetOk ==
    /\ pc = "get" /\ err = "none"
    /\ nreq' = nreq + 1
    /\ reqYears' = reqYears \cup {year}
    /\ pc' = "ret"
    /\ UNCHANGED <<err, errinfo, args, tz_hours, tz_sign, year, attempt, backoff,
                   slept, resp, pages, day_rows, sum_by_month, n_by_month,
                   keyOrder, absent, accepted, out, plines, pst, html>>

\* line 143: return r.text; the body is one of the pages, and the locals of
\* fetch_year_html are gone
ReturnText ==
    /\ pc = "ret" /\ err = "none"
    /\ \E scn \in Scenarios :
         /\ resp' = scn
         /\ pages' = [pages EXCEPT ![year] = scn]
    /\ attempt' = 0
    /\ backoff' = 0
    /\ nreq' = 0
    /\ slept' = <<>>
    /\ pc' = "text"
    /\ UNCHANGED <<err, errinfo, args, tz_hours, tz_sign, year, reqYears,
                   day_rows, sum_by_month, n_by_month, keyOrder, absent,
                   accepted, out, plines, pst, html>>

\* (variant: the loop gives up one attempt late)
LastAttemptLate(a) == a = Retries + 1

\* line 146: if attempt == retries: break
LastAttempt(a) == a = Retries

\* (variant: the backoff grows by one instead of doubling)
NextBackoffLinear(b) == IF b + 1 < MaxBackoff THEN b + 1 ELSE MaxBackoff

\* line 149: backoff = min(16.0, backoff * 2)
NextBackoff(b) == IF b * 2 < MaxBackoff THEN b * 2 ELSE MaxBackoff

\* lines 144-150: the request raises (network error or bad status)
GetFail ==
    /\ pc = "get" /\ err = "none"
    /\ nreq' = nreq + 1
    /\ reqYears' = reqYears \cup {year}
    /\ IF LastAttempt(attempt)
       THEN /\ Raise("FetchError", [NoInfo EXCEPT !.year = year])
            /\ UNCHANGED <<attempt, backoff, slept>>
       ELSE /\ slept' = Append(slept, backoff)
            /\ backoff' = NextBackoff(backoff)
            /\ attempt' = attempt + 1
            /\ UNCHANGED <<err, errinfo>>
    /\ UNCHANGED <<pc, args, tz_hours, tz_sign, year, resp, pages, day_rows,
                   sum_by_month, n_by_month, keyOrder, absent, accepted, out,
                   plines, pst, html>>

\* ------------------------------------------------- main, lines 192-205
Reconstruct ==
    /\ pc = "text" /\ err = "none"
    /\ LET text == html_to_text_preserve_table(PageOf(year, resp))
           lines == StripNonBlank(text)
           rows == parse_wrapped_day_rows(lines)
       IN /\ day_rows' = rows
          /\ IF Len(rows) < MinDayRows
             THEN /\ Raise("ReconstructionError",
                           [NoInfo EXCEPT !.year = year, !.got = Len(rows)])
                  /\ pc' = pc
             ELSE /\ pc' = "agg"
                  /\ UNCHANGED <<err, errinfo>>
    /\ UNCHANGED <<args, tz_hours, tz_sign, year, attempt, backoff, nreq, slept,
                   reqYears, resp, pages, sum_by_month, n_by_month, keyOrder,
                   absent, accepted, out, plines, pst, html>>

\* ----------------------------------- Validator and Aggregator, 207-219
\* line 216: 0.0 <= val <= 1.0
InRange(val) == 0 <= val /\ val <= One

\* the aggregation of one year: the aggregators, the dates that contributed,
\* and the exception that stopped it
AccInit ==
    [sum |-> sum_by_month, n |-> n_by_month, order |-> keyOrder, seen |-> {},
     accepted |-> accepted, err |-> "none", info |-> NoInfo]

\* (variant: the range is checked before the calendar date)
AccValueRangeFirst(acc, y, m, d, val) ==
    IF val = None THEN acc
    ELSE IF ~InRange(val)
    THEN [acc EXCEPT !.err = "RangeError",
                     !.info = [NoInfo EXCEPT !.year = y, !.month = m,
                                             !.day = d, !.got = val]]
    ELSE IF ~ValidDate(y, m, d) THEN acc
    ELSE [acc EXCEPT !.sum[<<y, m>>] = @ + val,
                     !.n[<<y, m>>] = @ + 1,
                     !.order = IF \E i \in 1..Len(@) : @[i] = <<y, m>>
                               THEN @ ELSE Append(@, <<y, m>>),
                     !.seen = @ \cup {<<m, d>>},
                     !.accepted = @ \cup {val}]

\* body of "for month, val in zip(MONTHS, vals)", lines 209-219
AccValue(acc, y, m, d, val) ==
    IF val = None THEN acc
    ELSE IF ~ValidDate(y, m, d) THEN acc
    ELSE IF ~InRange(val)
    THEN [acc EXCEPT !.err = "RangeError",
                     !.info = [NoInfo EXCEPT !.year = y, !.month = m,
                                             !.day = d, !.got = val]]
    ELSE [acc EXCEPT !.sum[<<y, m>>] = @ + val,
                     !.n[<<y, m>>] = @ + 1,
                     !.order = IF \E i \in 1..Len(@) : @[i] = <<y, m>>
                               THEN @ ELSE Append(@, <<y, m>>),
                     !.seen = @ \cup {<<m, d>>},
                     !.accepted = @ \cup {val}]

RECURSIVE AccMonths(_, _, _, _)
\* "for month, val in zip(MONTHS, vals)" from month m on; a raise ends it
AccMonths(acc, y, row, m) ==
    IF m > TokensPerDay \/ acc.err # "none" THEN acc
    ELSE AccMonths(AccValue(acc, y, m, row.day, row.vals[m]), y, row, m + 1)

RECURSIVE AccRows(_, _, _, _, _)
\* "for day, vals in day_rows" over rows[lo..hi], first half then second
\* half; a raise ends it
AccRows(acc, y, rows, lo, hi) ==
    IF lo > hi \/ acc.err # "none" THEN acc
    ELSE IF lo = hi THEN AccMonths(acc, y, rows[lo], 1)
    ELSE LET mid == (lo + hi) \div 2
         IN AccRows(AccRows(acc, y, rows, lo, mid), y, rows, mid + 1, hi)

\* main, lines 207-221, and the step of "for year in range(...)"
Accumulate ==
    /\ pc = "agg" /\ err = "none"
    /\ LET acc == AccRows(AccInit, year, day_rows, 1, Len(day_rows))
       IN /\ sum_by_month' = acc.sum
          /\ n_by_month' = acc.n
          /\ keyOrder' = acc.order
          /\ accepted' = acc.accepted
          /\ IF acc.err # "none"
             THEN /\ Raise(acc.err, acc.info)
                  /\ UNCHANGED <<pc, year, absent>>
             ELSE /\ absent' = absent \cup
                        {<<year, m, d>> : <<m, d>> \in
                           {md \in MONTHS \X (1..31) :
                              ValidDate(year, md[1], md[2])} \ acc.seen}
                  /\ IF year = args.end
                     THEN pc' = "check" /\ year' = year
                     ELSE pc' = "fetch" /\ year' = year + 1
                  /\ UNCHANGED <<err, errinfo>>
    /\ UNCHANGED <<args, tz_hours, tz_sign, attempt, backoff, nreq, slept,
                   reqYears, resp, pages, day_rows, out, plines, pst, html>>

\* ------------------------------------------ completeness, lines 223-231
KeyBefore(a, b) == a[1] < b[1] \/ (a[1] = b[1] /\ a[2] < b[2])

\* (variant: a month is complete once it holds the plausibility floor)
MismatchesLax ==
    {key \in (args.start..args.end) \X MONTHS : n_by_month[key] < MinDayRows}

Mismatches ==
    {key \in (args.start..args.end) \X MONTHS :
       n_by_month[key] # DaysInMonth(key[1], key[2])}

Completeness ==
    /\ pc = "check" /\ err = "none"
    /\ IF Mismatches # {}
       THEN LET key == CHOOSE a \in Mismatches :
                          \A b \in Mismatches : a = b \/ KeyBefore(a, b)
            IN /\ Raise("CompletenessError",
                        [NoInfo EXCEPT !.year = key[1], !.month = key[2],
                                       !.expected = DaysInMonth(key[1], key[2]),
                                       !.got = n_by_month[key]])
               /\ pc' = pc
       ELSE /\ pc' = "open"
            /\ UNCHANGED <<err, errinfo>>
    /\ UNCHANGED <<args, tz_hours, tz_sign, year, attempt, backoff, nreq, slept,
                   reqYears, resp, pages, day_rows, sum_by_month, n_by_month,
                   keyOrder, absent, accepted, out, plines, pst, html>>

\* ------------------------------------------------ Writer, lines 233-245
\* expected_months
ExpectedMonths == (args.end - args.start + 1) * 12

\* (variant: the rows follow the insertion order of the aggregators)
WriteKeyInsertion(i) == keyOrder[i]

\* the key of the i-th data row: "for year in range(...): for month in MONTHS"
WriteKey(i) == <<args.start + ((i - 1) \div 12), ((i - 1) % 12) + 1>>

\* line 240-242: one data row; the mean is the exact quotient sum / n
DataRow(key) ==
    [year |-> key[1], month |-> key[2],
     mean |-> <<sum_by_month[key], n_by_month[key]>>,
     n_days |-> n_by_month[key],
     tz_hours |-> tz_hours, tz_sign |-> tz_sign, state |-> args.state]

\* lines 235-236: open(args.out, "w") creates or truncates the file, or
\* fails (OSError) and creates none; f.write hands the header to the file
\* object, which buffers it: the file on disk is empty
OpenOut ==
    /\ pc = "open" /\ err = "none"
    /\ \E ok \in BOOLEAN :
         IF ok
         THEN /\ out' = [exists |-> TRUE, header |-> FALSE, rows |-> <<>>,
                         cut |-> FALSE,
                         buf |-> [header |-> TRUE, rows |-> <<>>]]
              /\ pc' = "write"
              /\ UNCHANGED <<err, errinfo>>
         ELSE /\ Raise("IOError", NoInfo)
              /\ UNCHANGED <<pc, out>>
    /\ UNCHANGED <<args, tz_hours, tz_sign, year, attempt, backoff, nreq, slept,
                   reqYears, resp, pages, day_rows, sum_by_month, n_by_month,
                   keyOrder, absent, accepted, plines, pst, html>>

\* lines 238-242: f.write of the next data row.  The row is added to the
\* buffer of the file object (the output of the years drawn is smaller than
\* the buffer), so nothing reaches the disk and nothing can fail.
WriteRow ==
    /\ pc = "write" /\ err = "none"
    /\ out' = [out EXCEPT !.buf.rows = Append(@, DataRow(WriteKey(Len(@) + 1)))]
    /\ pc' = IF Len(out.buf.rows) + 1 = ExpectedMonths THEN "close" ELSE "write"
    /\ UNCHANGED <<err, errinfo>>
    /\ UNCHANGED <<args, tz_hours, tz_sign, year, attempt, backoff, nreq, slept,
                   reqYears, resp, pages, day_rows, sum_by_month, n_by_month,
                   keyOrder, absent, accepted, plines, pst, html>>

\* line 235, leaving the with block: the file is closed and the buffer is
\* flushed.  Either all of it reaches the disk, or the flush fails (OSError)
\* and the disk keeps what got through: a proper prefix of the output, which
\* may end in the middle of a line.
CloseOut ==
    /\ pc = "close" /\ err = "none"
    /\ \E ok \in BOOLEAN :
         IF ok
         THEN /\ out' = [exists |-> TRUE, header |-> out.buf.header,
                         rows |-> out.buf.rows, cut |-> FALSE, buf |-> NoBuf]
              /\ pc' = "done"
              /\ UNCHANGED <<err, errinfo>>
         ELSE /\ \E h \in BOOLEAN, k \in 0..(Len(out.buf.rows) - 1), c \in BOOLEAN :
                   /\ ~h => k = 0
                   /\ out' = [exists |-> TRUE, header |-> h,
                              rows |-> SubSeq(out.buf.rows, 1, k), cut |-> c,
                              buf |-> NoBuf]
              /\ Raise("IOError", NoInfo)
              /\ pc' = pc
    /\ UNCHANGED <<args, tz_hours, tz_sign, year, attempt, backoff, nreq, slept,
                   reqYears, resp, pages, day_rows, sum_by_month, n_by_month,
                   keyOrder, absent, accepted, plines, pst, html>>

Next ==
    \/ ParseArgs
    \/ FetchStart
    \/ GetOk
    \/ ReturnText
    \/ GetFail
    \/ Reconstruct
    \/ Accumulate
    \/ Completeness
    \/ OpenOut
    \/ WriteRow
    \/ CloseOut

Spec == Init /\ [][Next]_vars

\* ------------------------------------ the Reconstructor on its own
\* SpecParse feeds parse_wrapped_day_rows one line at a time.  The atoms of
\* the line at position idx carry values that name their place (100 * idx
\* + j), so that the order and the origin of every token can be read off.
LineAtoms(idx, n, pat) ==
    [j \in 1..n |->
       CASE pat = "num" -> Num((100 * idx) + j)
         [] pat = "mix" -> IF j % 2 = 0 THEN Ph ELSE Num((100 * idx) + j)
         [] pat = "dirty" -> IF j = 1 THEN Neg((100 * idx) + j)
                             ELSE IF j = 2 THEN Junk
                             ELSE Num((100 * idx) + j)]

\* (number of atoms, pattern) of the lines drawn
LineShapes ==
    {<<0, "num">>, <<4, "num">>, <<4, "mix">>, <<8, "num">>, <<12, "num">>,
     <<14, "dirty">>}

LineLeads == {None, 0, 7, 45}

\* the lines drawn at position idx: with or without two leading digits, the
\* digits followed by whitespace, or standing alone on a trimmed line
LinesAt(idx) ==
    {TextLine(ld, ld # None, LineAtoms(idx, sh[1], sh[2])) :
        ld \in LineLeads, sh \in LineShapes}
    \cup {TextLine(ld, FALSE, <<>>) : ld \in LineLeads \ {None}}

FeedLine ==
    /\ Len(plines) < MaxLines
    /\ \E ln \in LinesAt(Len(plines) + 1) :
         /\ plines' = Append(plines, ln)
         /\ pst' = ParseStep(pst, ln)
    /\ UNCHANGED runVars
    /\ UNCHANGED html

SpecParse == Init /\ [][FeedLine]_vars

\* ---------------------------------------- the Normalizer on its own
\* SpecNorm builds the markup of a page piece by piece.  A piece is a tag
\* (written as in the page; "</td >" and "</tr >" are closing tags with
\* whitespace before the ">"), a raw space "SP", line feed "LF" or carriage
\* return "CR", one of the entities "&lt;" and "&gt;", or a word "w": cell
\* text with no whitespace and no markup in it.  The Normalizer works on the
\* pieces tagged with their place in the page, [k, at], so that every word
\* of the text can be traced to the page; its steps turn pieces into "SP",
\* "LF" and the literal characters "<" and ">".
MaxPieces == 4

TagKinds ==
    {"<tr>", "<td>", "</td>", "</th>", "</tr>", "<br>", "</p>", "</td >",
     "</tr >", "<script>", "</script>", "<style>", "</style>"}

PieceKinds == TagKinds \cup {"SP", "LF", "CR", "&lt;", "&gt;", "w"}

Tagged(page) == [i \in 1..Len(page) |-> [k |-> page[i], at |-> i]]

\* re.sub of one piece kind by another
Sub(s, from, to) ==
    [i \in 1..Len(s) |-> IF s[i].k = from THEN [s[i] EXCEPT !.k = to] ELSE s[i]]

\* the pieces of s at the places in idx, in order
KeepAt(s, idx) ==
    [n \in 1..Cardinality(idx) |->
       s[CHOOSE i \in idx : Cardinality({j \in idx : j <= i}) = n]]

\* line 62: html.unescape
Unescape(s) == Sub(Sub(s, "&lt;", "<"), "&gt;", ">")

\* line 65: (?i)</(td|th)> -> " "; "</td >" is no match
CellBoundary(s) == Sub(Sub(s, "</td>", "SP"), "</th>", "SP")

\* line 66: (?i)</tr> -> "\n"; "</tr >" is no match
RowBoundary(s) == Sub(s, "</tr>", "LF")

\* lines 67-68: <br> -> "\n", </p> -> "\n"
LineBreaks(s) == Sub(Sub(s, "<br>", "LF"), "</p>", "LF")

RECURSIVE BlocksFrom(_, _, _, _)
\* re.sub(r"(?is)<script\b[^>]*>.*?</script>", "", html) from place i on: an
\* opening tag and everything up to the first closing tag after it go; an
\* opening tag that is never closed is no match
BlocksFrom(s, open, close, i) ==
    IF i > Len(s) THEN <<>>
    ELSE IF s[i].k = open /\ \E j \in (i + 1)..Len(s) : s[j].k = close
    THEN LET j == CHOOSE j \in (i + 1)..Len(s) :
                    s[j].k = close /\ \A x \in (i + 1)..(j - 1) : s[x].k # close
         IN BlocksFrom(s, open, close, j + 1)
    ELSE <<s[i]>> \o BlocksFrom(s, open, close, i + 1)

\* lines 71-72: script blocks, then style blocks
RemoveBlocks(s) ==
    BlocksFrom(BlocksFrom(s, "<script>", "</script>", 1), "<style>", "</style>", 1)

IsTag(p) == p.k \in TagKinds

\* the piece holds the character ">"
HasGt(p) == IsTag(p) \/ p.k = ">"

RECURSIVE StripFrom(_, _)
\* line 75, re.sub(r"<[^>]+>", "", html) from place i on: a tag is a match;
\* a literal "<" matches up to the first ">" after it (the end of the next
\* tag, or a literal ">" that does not follow it at once), whatever lies
\* between, and stays when there is no such ">"
StripFrom(s, i) ==
    IF i > Len(s) THEN <<>>
    ELSE IF IsTag(s[i]) THEN StripFrom(s, i + 1)
    ELSE IF s[i].k = "<" /\ \E j \in (i + 1)..Len(s) : HasGt(s[j])
    THEN LET j == CHOOSE j \in (i + 1)..Len(s) :
                    HasGt(s[j]) /\ \A x \in (i + 1)..(j - 1) : ~HasGt(s[x])
         IN IF s[j].k = ">" /\ j = i + 1
            THEN <<s[i]>> \o StripFrom(s, i + 1)
            ELSE StripFrom(s, j + 1)
    ELSE <<s[i]>> \o StripFrom(s, i + 1)

StripTags(s) == StripFrom(s, 1)

\* line 78: "\r\n" -> "\n", then "\r" -> "\n"
CarriageReturns(s) ==
    Sub(KeepAt(s, {i \in 1..Len(s) :
                     ~(s[i].k = "CR" /\ i < Len(s) /\ s[i + 1].k = "LF")}),
        "CR", "LF")

\* line 79: [ \t]+ -> " "
CollapseSpaces(s) ==
    KeepAt(s, {i \in 1..Len(s) : ~(s[i].k = "SP" /\ i > 1 /\ s[i - 1].k = "SP")})

\* line 80: \n{2,} -> "\n"
CollapseBreaks(s) ==
    KeepAt(s, {i \in 1..Len(s) : ~(s[i].k = "LF" /\ i > 1 /\ s[i - 1].k = "LF")})

\* line 82: html.strip()
StripEnds(s) ==
    LET ink == {i \in 1..Len(s) : s[i].k \notin {"SP", "LF"}}
    IN KeepAt(s, {i \in 1..Len(s) : \E a, b \in ink : a <= i /\ i <= b})

\* html_to_text_preserve_table on the pieces of a page
NormalizePieces(s) ==
    StripEnds(CollapseBreaks(CollapseSpaces(CarriageReturns(
      StripTags(RemoveBlocks(
        LineBreaks(RowBoundary(CellBoundary(Unescape(s))))))))))

AddPiece ==
    /\ Len(html) < MaxPieces
    /\ \E k \in PieceKinds : html' = Append(html, k)
    /\ UNCHANGED runVars
    /\ UNCHANGED <<plines, pst>>

SpecNorm == Init /\ [][AddPiece]_vars

\* ============================================================ claims
\* ------------------------------------------- what a page holds (text)
\* the atom is a token of the grammar as written: "--" or an unsigned decimal
WellFormed(a) == a.k \in {"ph", "num"}

\* the block is one whole day record: twelve atoms, each of them a number
\* (signed or not) or the placeholder
WholeBlock(b) ==
    /\ Len(b.atoms) = TokensPerDay
    /\ \A j \in 1..TokensPerDay : b.atoms[j].k \in {"ph", "num", "neg"}

\* the text written for month m in block b is a fraction in [0, 1]
ValidText(b, m) == b.atoms[m].k = "num" /\ b.atoms[m].v <= One

\* the text written for month m in block b is a number outside [0, 1]
OutOfRangeText(b, m) ==
    \/ b.atoms[m].k = "neg" /\ b.atoms[m].v > 0
    \/ b.atoms[m].k = "num" /\ b.atoms[m].v > One

\* every day 1..31 has exactly one block in the page, and every block is whole
OneBlockPerDay(bs) ==
    /\ \A i \in 1..Len(bs) : WholeBlock(bs[i]) /\ bs[i].day \in 1..31
    /\ \A d \in 1..31 : \E i \in 1..Len(bs) : bs[i].day = d
    /\ \A i, j \in 1..Len(bs) : bs[i].day = bs[j].day => i = j

\* the days of month m of year y for which the page holds a valid value
ValidDays(y, bs, m) ==
    {d \in 1..31 : d <= DaysInMonth(y, m) /\
                   \E i \in 1..Len(bs) : bs[i].day = d /\ ValidText(bs[i], m)}

\* every day of the year is present and valid in the page
FullPage(y, scn) ==
    LET bs == Blocks(y, scn)
    IN /\ OneBlockPerDay(bs)
       /\ \A m \in MONTHS : Cardinality(ValidDays(y, bs, m)) = DaysInMonth(y, m)

\* as FullPage, but February holds 28 valid values only: its other days
\* carry the placeholder
Feb28Page(y, scn) ==
    LET bs == Blocks(y, scn)
    IN /\ OneBlockPerDay(bs)
       /\ \A m \in MONTHS \ {2} : Cardinality(ValidDays(y, bs, m)) = DaysInMonth(y, m)
       /\ Cardinality(ValidDays(y, bs, 2)) = 28
       /\ \A i \in 1..Len(bs) : ValidText(bs[i], 2) \/ bs[i].atoms[2].k = "ph"

\* the page holds a number outside [0, 1] on a real calendar date of a whole
\* day record
OutOfRangePage(y, scn) ==
    LET bs == Blocks(y, scn)
    IN \E i \in 1..Len(bs) :
         /\ WholeBlock(bs[i])
         /\ \E m \in MONTHS : ValidDate(y, m, bs[i].day) /\ OutOfRangeText(bs[i], m)

\* ------------------------------------------------- positions of a run
RunEnded == pc = "done" \/ err # "none"
CheckRan == pc \in {"open", "write", "close", "done"} \/ err = "CompletenessError"
CheckPassed == pc \in {"open", "write", "close", "done"}
\* the aggregation of year y has ended without an exception
Aggregated(y) ==
    /\ y \in args.start..args.end
    /\ pc \notin {"args"}
    /\ (y < year \/ pc \in {"check", "open", "write", "close", "done"})
Requested == args.start..args.end
FileComplete ==
    out.exists /\ out.header /\ Len(out.rows) = ExpectedMonths /\ ~out.cut

\* the data rows handed to f.write and the data rows on disk
WrittenRows == {out.buf.rows[i] : i \in 1..Len(out.buf.rows)}
                 \cup {out.rows[i] : i \in 1..Len(out.rows)}

RowKey(i) == <<out.rows[i].year, out.rows[i].month>>

RECURSIVE SumSeq(_)
SumSeq(q) == IF q = <<>> THEN 0 ELSE Head(q) + SumSeq(Tail(q))

\* ---------------------------------------------------------------- C1
\* C1 (as claimed): all-or-nothing output.  Whenever the run has ended with
\* a fatal error no output file exists, and an output file that exists after
\* a run holds the header and one row for every month of the requested range.
C1_AllOrNothing ==
    /\ (err # "none" => ~out.exists)
    /\ (RunEnded /\ out.exists => FileComplete)

\* ---------------------------------------------------------------- C2
\* C2: completeness.  Every row written is for a month whose count of valid
\* observations equals its calendar day count; when every requested year's
\* page has every day present and valid the completeness pass raises nothing;
\* when the first page that is not full is a leap year's page with 28 valid
\* February values the pass raises CompletenessError for that year with
\* month 2, expected 29, got 28.
C2_Completeness ==
    /\ \A r \in WrittenRows :
         /\ r.n_days = DaysInMonth(r.year, r.month)
         /\ n_by_month[<<r.year, r.month>>] = DaysInMonth(r.year, r.month)
    /\ CheckRan =>
         /\ (\A y \in Requested : FullPage(y, pages[y])) => err # "CompletenessError"
         /\ \A y \in Requested :
              (/\ IsLeap(y)
               /\ Feb28Page(y, pages[y])
               /\ \A z \in Requested : z < y => FullPage(z, pages[z]))
              => /\ err = "CompletenessError"
                 /\ errinfo = [NoInfo EXCEPT !.year = y, !.month = 2,
                                             !.expected = 29, !.got = 28]

\* a leap year's page with 28 valid February values was rejected
C2_Witness ==
    /\ err = "CompletenessError"
    /\ errinfo.month = 2 /\ errinfo.expected = 29 /\ errinfo.got = 28
    /\ IsLeap(errinfo.year)
    /\ Feb28Page(errinfo.year, pages[errinfo.year])

\* ---------------------------------------------------------------- C3
\* C3 (as claimed): the run passes the completeness pass only if every
\* calendar day of every month of every requested year contributed a valid
\* observation.
C3_EveryDayContributed == CheckPassed => absent = {}

\* ---------------------------------------------------------------- C4
\* C4: bounded retry.  No fetch issues more than 5 requests; a request that
\* succeeds as attempt k follows k-1 failed ones and hands its page on with
\* no error; FetchError is raised after exactly 5 requests, with no request
\* sent for a later year and no output file.
C4_BoundedRetry ==
    /\ nreq <= Retries
    /\ (pc = "get" /\ err = "none") => nreq = attempt - 1 /\ Len(slept) = nreq
    /\ pc = "ret" => /\ err = "none"
                     /\ nreq \in 1..Retries
                     /\ nreq = attempt
                     /\ Len(slept) = nreq - 1
    /\ pc \in {"text", "agg"} => resp # NoPage /\ pages[year] = resp
    /\ err = "FetchError" =>
         /\ nreq = Retries
         /\ errinfo.year = year
         /\ \A y \in reqYears : y <= year
         /\ ~out.exists

\* three failed requests, then the fourth succeeded
C4_Witness == pc = "ret" /\ nreq = 4 /\ Len(slept) = 3 /\ err = "none"

\* ---------------------------------------------------------------- C5
\* C5 (as claimed): every accumulated value lies in [0, 1], and a year whose
\* page holds a number outside [0, 1] (1.0001 or -0.0001) on a real calendar
\* date is never aggregated to its end: the run aborts with RangeError.
C5_RangeCheck ==
    /\ \A v \in accepted : 0 <= v /\ v <= One
    /\ \A y \in Years : Aggregated(y) => ~OutOfRangePage(y, pages[y])

\* ---------------------------------------------------------------- C7
\* C7: the tokens of a day record that was still below 12 tokens when the
\* next day-start line (or the end of the input) came are in no emitted
\* DayRecord and in no MonthAccumulator; the day keeps only the record that
\* was completed for it, if any.
ShortPage ==
    resp.kind = "short" /\ pc \in {"agg", "fetch", "check", "open", "write", "close", "done"}

RowsOfDay(d) == {i \in 1..Len(day_rows) : day_rows[i].day = d}

C7_IncompleteDiscarded ==
    /\ Marker \notin accepted
    /\ \A i \in 1..Len(day_rows) : \A m \in MONTHS : day_rows[i].vals[m] # Marker
    /\ (ShortPage /\ pages[year] = resp) =>
         /\ Cardinality(RowsOfDay(resp.d)) = resp.m
         /\ \A d \in 1..31 : d # resp.d => Cardinality(RowsOfDay(d)) = 1

\* a page with an incomplete day record was reconstructed and aggregated
C7_Witness ==
    /\ pc = "done"
    /\ \E y \in Requested : pages[y].kind = "short" /\ pages[y].wrap = "three"

\* ---------------------------------------------------------------- C8
\* C8: a configuration error precedes all network activity.  A run whose
\* end is below its start, or whose resolved tz_sign is neither -1 nor +1,
\* ends with ConfigError and sends no request.
C8_ConfigFirst ==
    /\ err = "ConfigError" => reqYears = {} /\ nreq = 0
    /\ (pc # "args" /\ args.end < args.start) => err = "ConfigError"
    /\ (pc \notin {"args", "fetch"} \/ reqYears # {}) =>
         /\ tz_sign \in {-1, 1}
         /\ args.start <= args.end
    /\ (pc = "fetch" /\ tz_sign \notin {-1, 1}) => reqYears = {}

\* a tz_sign of 0 was rejected
C8_Witness ==
    /\ err = "ConfigError"
    /\ args.start <= args.end
    /\ tz_sign \notin {-1, 1}
    /\ pc = "fetch"

\* ---------------------------------------------------------------- C9
\* C9: on success the file holds exactly (end - start + 1) * 12 rows, one for
\* every (year, month) of the requested range, in strictly ascending order.
C9_RowsAscending ==
    pc = "done" =>
      /\ Len(out.rows) = (args.end - args.start + 1) * 12
      /\ {RowKey(i) : i \in 1..Len(out.rows)} = Requested \X MONTHS
      /\ \A i \in 1..(Len(out.rows) - 1) : KeyBefore(RowKey(i), RowKey(i + 1))

\* a run succeeded whose aggregators were not filled in ascending order
C9_Witness ==
    /\ pc = "done"
    /\ \E i \in 1..(Len(keyOrder) - 1) : KeyBefore(keyOrder[i + 1], keyOrder[i])

\* --------------------------------------------------------------- C10
BackoffSchedule == <<1, 2, 4, 8, 16>>

\* C10 (as claimed): the sleeps are 1, 2, 4, ... capped at 16, and when all
\* 5 attempts of a year fail the sleeps before FetchError total 31.
C10_Original ==
    /\ Len(slept) <= 5 /\ slept = SubSeq(BackoffSchedule, 1, Len(slept))
    /\ err = "FetchError" => SumSeq(slept) = 31

\* C10 (amended): the sleeps are 1, 2, 4, ... and never exceed 16; when all 5
\* attempts of a year fail, four sleeps (1, 2, 4, 8) were performed before
\* FetchError, 15 time units in all: no sleep follows the fifth failure.
C10_Backoff ==
    /\ Len(slept) <= 5 /\ slept = SubSeq(BackoffSchedule, 1, Len(slept))
    /\ \A i \in 1..Len(slept) : slept[i] <= MaxBackoff
    /\ backoff <= MaxBackoff
    /\ err = "FetchError" => slept = <<1, 2, 4, 8>> /\ SumSeq(slept) = 15

\* all five attempts of a year failed
C10_Witness == err = "FetchError" /\ nreq = Retries /\ Len(slept) = 4

\* ------------------------------------------------ C6 (under SpecParse)
RECURSIVE AllAtoms(_)
AllAtoms(lines) ==
    IF lines = <<>> THEN <<>> ELSE Head(lines).atoms \o AllAtoms(Tail(lines))

\* the lines fed are one day's 12 well-formed tokens split over lines: the
\* first is a day-start line, the later ones are not
IsSplit ==
    /\ Len(plines) >= 1
    /\ DayStartMatch(plines[1])
    /\ \A i \in 2..Len(plines) : ~DayStartMatch(plines[i])
    /\ Len(AllAtoms(plines)) = TokensPerDay
    /\ \A j \in 1..TokensPerDay : WellFormed(AllAtoms(plines)[j])

\* C6: line-wrap independence.  However 12 well-formed tokens of a day are
\* split over lines, the Reconstructor yields exactly one DayRecord, with
\* that day and the 12 values in order, the same as for the 12 tokens on one
\* line; a numeric token is never marked missing.
C6_WrapIndependent ==
    IsSplit =>
      LET atoms == AllAtoms(plines)
          oneLine == TextLine(plines[1].lead, TRUE, atoms)
      IN /\ Len(pst.rows) = 1
         /\ pst.rows[1].day = plines[1].lead
         /\ \A j \in 1..TokensPerDay :
              pst.rows[1].vals[j] = IF atoms[j].k = "num" THEN atoms[j].v ELSE None
         /\ pst.rows = parse_wrapped_day_rows(<<oneLine>>)

\* a day's 12 tokens arrived as 4 + 4 + 4 and one record came out
C6_Witness ==
    /\ IsSplit
    /\ Len(plines) = 3
    /\ \A i \in 1..3 : Len(plines[i].atoms) = 4
    /\ Len(pst.rows) = 1

\* ----------------------------------------------- C11 (under SpecParse)
\* the day-start lines among the lines fed
DayStarts == {i \in 1..Len(plines) : DayStartMatch(plines[i])}

\* the last line before the next day-start line (or the last line fed)
SegEnd(i) ==
    IF \E j \in DayStarts : j > i
    THEN (CHOOSE j \in DayStarts : j > i /\ \A k \in DayStarts : k > i => j <= k) - 1
    ELSE Len(plines)

\* the tokens collected since day-start line i, in the order of the text
SegTokens(i) == FindAll(AllAtoms(SubSeq(plines, i, SegEnd(i))))

\* the day-start lines after which at least 12 tokens were collected
Complete == {i \in DayStarts : Len(SegTokens(i)) >= TokensPerDay}

\* C11: every DayRecord emitted holds exactly 12 values, the first 12 tokens
\* collected since its day-start line; there is one record for every day-start
\* line that collected at least 12 tokens and no other, so the tokens beyond
\* the 12th are in no record.
C11_FirstTwelve ==
    /\ Len(pst.rows) = Cardinality(Complete)
    /\ \A k \in 1..Len(pst.rows) :
         /\ Len(pst.rows[k].vals) = TokensPerDay
         /\ \E i \in Complete :
              /\ Cardinality({j \in Complete : j <= i}) = k
              /\ pst.rows[k].day = plines[i].lead
              /\ \A t \in 1..TokensPerDay :
                   pst.rows[k].vals[t] = TokenValue(SegTokens(i)[t])

\* more than 12 tokens were collected for a day, over more than one line,
\* and its record was emitted
C11_Witness ==
    /\ Len(pst.rows) = 1
    /\ \E i \in Complete :
         /\ Len(SegTokens(i)) > TokensPerDay
         /\ SegEnd(i) > i
         /\ Len(FindAll(plines[i].atoms)) < TokensPerDay

\* ----------------------------------------------- C13 (under SpecParse)
\* C13 (as claimed): every DayRecord emitted by the Reconstructor has a day
\* number in 1..31, whatever the lines fed.
C13_DayInRange == \A k \in 1..Len(pst.rows) : pst.rows[k].day \in 1..31

\* --------------------------------------------------------------- C12
\* the page is made of whole day records, each starting a line with its day
WholePage(scn) ==
    /\ scn.wrap # "bare"
    /\ \A i \in 1..Len(Blocks(FirstYear, scn)) : WholeBlock(Blocks(FirstYear, scn)[i])

\* what the text written for month m in block b adds to the month of year y:
\* nothing for the placeholder and for a day the month does not have
Contribution(y, b, m) ==
    IF b.atoms[m].k = "ph" \/ ~ValidDate(y, m, b.day) THEN 0 ELSE b.atoms[m].v

Counted(y, b, m) == IF b.atoms[m].k = "ph" \/ ~ValidDate(y, m, b.day) THEN 0 ELSE 1

ExpectedSum(y, bs, m) == SumSeq([i \in 1..Len(bs) |-> Contribution(y, bs[i], m)])
ExpectedCount(y, bs, m) == SumSeq([i \in 1..Len(bs) |-> Counted(y, bs[i], m)])

\* the aggregation of year y has just ended without an exception
JustAggregated(y) ==
    /\ err = "none"
    /\ \/ pc = "check" /\ y = year
       \/ pc = "fetch" /\ y = year - 1 /\ y >= args.start

\* values tried on dates that do not exist
AnyValues == {0, 1, One, One + 1, Marker, 5 * One}

\* C12: a placeholder and a value on a date that is not a real calendar date
\* are skipped silently.  Processing one leaves the sums, the counts and the
\* error state as they were, whatever the value; a year whose page holds
\* whole day records is aggregated to exactly the values on real dates that
\* are not placeholders, so the other values of a record are still processed;
\* and a RangeError always names a value outside [0, 1] that the page holds
\* on a real date.
C12_SilentSkip ==
    /\ (pc = "agg" /\ err = "none") =>
         \A i \in 1..Len(day_rows) : \A m \in MONTHS :
           /\ (day_rows[i].vals[m] = None \/ ~ValidDate(year, m, day_rows[i].day))
                => AccValue(AccInit, year, m, day_rows[i].day, day_rows[i].vals[m])
                     = AccInit
           /\ ~ValidDate(year, m, day_rows[i].day)
                => \A v \in AnyValues :
                     AccValue(AccInit, year, m, day_rows[i].day, v) = AccInit
    /\ \A y \in Years :
         (JustAggregated(y) /\ WholePage(pages[y])) =>
           \A m \in MONTHS :
             /\ sum_by_month[<<y, m>>] = ExpectedSum(y, Blocks(y, pages[y]), m)
             /\ n_by_month[<<y, m>>] = ExpectedCount(y, Blocks(y, pages[y]), m)
    /\ err = "RangeError" =>
         LET bs == Blocks(errinfo.year, pages[errinfo.year])
         IN \E i \in 1..Len(bs) :
              /\ WholeBlock(bs[i])
              /\ bs[i].day = errinfo.day
              /\ ValidDate(errinfo.year, errinfo.month, errinfo.day)
              /\ bs[i].atoms[errinfo.month] = Num(errinfo.got)
              /\ errinfo.got > One

\* a run succeeded whose page holds 1.0001 on 31 April: April's sum is that
\* of the page without it and May's 31 values were all counted
C12_Witness ==
    /\ pc = "done"
    /\ \E y \in Requested :
         /\ pages[y].kind = "tok"
         /\ pages[y].d = 31 /\ pages[y].m = 4
         /\ pages[y].a = Num(One + 1)
         /\ sum_by_month[<<y, 4>>] = ExpectedSum(y, CleanBlocks(y), 4)
         /\ n_by_month[<<y, 5>>] = 31

\* --------------------------------------------------------------- C15
\* the page of year y is a full page but for one decimal written with a
\* minus sign, on a real calendar date
NegPage(y) ==
    /\ pages[y].kind = "tok"
    /\ pages[y].a.k = "neg"
    /\ ValidDate(y, pages[y].m, pages[y].d)

\* C15: every value of every DayRecord emitted is non-negative (or missing);
\* the text -0.0001 on a real date is read as 0.0001: the record of its day
\* holds 0.0001, no RangeError is raised for the page, and the month's sum is
\* that of the other days plus 0.0001, with the day counted.
C15_SignDropped ==
    /\ \A i \in 1..Len(day_rows) : \A m \in MONTHS :
         day_rows[i].vals[m] = None \/ day_rows[i].vals[m] >= 0
    /\ (pc = "agg" /\ err = "none" /\ NegPage(year)) =>
         \E i \in 1..Len(day_rows) :
           /\ day_rows[i].day = pages[year].d
           /\ day_rows[i].vals[pages[year].m] = pages[year].a.v
    /\ err = "RangeError" => ~NegPage(errinfo.year)
    /\ \A y \in Years :
         (JustAggregated(y) /\ NegPage(y)) =>
           /\ pages[y].a.v \in accepted
           /\ sum_by_month[<<y, pages[y].m>>] =
                (ExpectedSum(y, CleanBlocks(y), pages[y].m)
                   - BaseVal(pages[y].d, pages[y].m)) + pages[y].a.v
           /\ n_by_month[<<y, pages[y].m>>] = DaysInMonth(y, pages[y].m)

\* a run succeeded whose page holds -0.0001 on 1 February
C15_Witness ==
    /\ pc = "done"
    /\ 1 \in accepted
    /\ \E y \in Requested :
         NegPage(y) /\ pages[y].a = Neg(1) /\ pages[y].d = 1 /\ pages[y].m = 2

\* ------------------------------------------------ C14 (under SpecNorm)
\* the NormalizedText of the page built so far
NormText == NormalizePieces(Tagged(html))

\* the cell contents of the page
Words == {i \in 1..Len(html) : html[i] = "w"}

\* the tags that close a table cell, and those that close a table row
CellClose == {"</td>", "</th>", "</td >"}
RowClose == {"</tr>", "</tr >"}

\* where the word at place i of the page lies in the text t (0: nowhere)
PosOf(t, i) ==
    IF \E p \in 1..Len(t) : t[p].k = "w" /\ t[p].at = i
    THEN CHOOSE p \in 1..Len(t) : t[p].k = "w" /\ t[p].at = i
    ELSE 0

\* a piece of one of the kinds ks lies between places i and j of the page
Between(i, j, ks) == \E x \in (i + 1)..(j - 1) : html[x] \in ks

\* the line of the text t that place p is on
LineOf(t, p) == Cardinality({q \in 1..p : t[q].k = "LF"})

\* whitespace lies between places p and q of the text t
Spaced(t, p, q) == \E x \in (p + 1)..(q - 1) : t[x].k \in {"SP", "LF"}

\* two words of the page that both lie in the text t
WordPairs(t) ==
    {ij \in Words \X Words :
       ij[1] < ij[2] /\ PosOf(t, ij[1]) # 0 /\ PosOf(t, ij[2]) # 0}

\* C14 (as claimed): for every page, the contents of two cells of one row (a
\* cell closing tag and no row closing tag between them) are on one line of
\* the text, separated by whitespace, and the contents of cells of different
\* rows (a row closing tag between them) are on different lines.
C14_Original ==
    LET t == NormText
    IN \A ij \in WordPairs(t) :
         LET i == ij[1]
             j == ij[2]
             p == PosOf(t, i)
             q == PosOf(t, j)
         IN /\ (Between(i, j, CellClose) /\ ~Between(i, j, RowClose)) =>
                 LineOf(t, p) = LineOf(t, q) /\ Spaced(t, p, q)
            /\ Between(i, j, RowClose) => LineOf(t, p) # LineOf(t, q)

====
